---- MODULE Spec2Model ----
(***************************************************************************)
(* TrainTestSplitter of ml1_mnist/utils/model_selection.py: split,         *)
(* make_k_folds and k_fold_split over the positions of a label vector,     *)
(* with the instance's random generator and the two generator objects      *)
(* (make_k_folds, k_fold_split) as resumable program state.                *)
(*                                                                         *)
(* Index lists hold the 0-based Python indices; a list is a TLA+ sequence, *)
(* so Python's x[i] is x[i + 1] here.                                      *)
(***************************************************************************)
EXTENDS Integers, Sequences, FiniteSets, TLC

\* ------------------------------------------------------------- bounds

\* longest label vector y
MaxLen == 4
\* largest n_folds passed to make_k_folds / k_fold_split
MaxFolds == 3
\* number of states of the pseudo-random generator
RngMod == 8

\* label values: two classes
Labels == {0, 1}
\* random_seed: None or an int
None == -1
Seeds == {None, 1, 2}
\* train_ratio values num/den (floats whose products with a length are exact),
\* inside and outside the documented range 0 < train_ratio < 1
GoodRatios == {<<1, 4>>, <<1, 2>>, <<3, 4>>}
BadRatios == {<<0, 1>>, <<1, 1>>, <<3, 2>>, <<0 - 1, 2>>}
Ratios == GoodRatios \cup BadRatios
\* n_folds values, inside and outside the documented range n_folds > 1
FoldCounts == (0 - 1)..MaxFolds

\* ------------------------------------------------------------- Python

Range(n) == [i \in 1..n |-> i - 1]

Min(a, b) == IF a < b THEN a ELSE b
Max(a, b) == IF a > b THEN a ELSE b

\* a slice bound as Python normalises it: negative counts from the end,
\* then clamped to 0..len
SliceBound(i, len) == IF i < 0 THEN Max(i + len, 0) ELSE Min(i, len)

\* x[lo:hi]
PySlice(x, lo, hi) ==
    LET a == SliceBound(lo, Len(x))
        b == SliceBound(hi, Len(x))
    IN  IF a >= b THEN <<>> ELSE SubSeq(x, a + 1, b)

\* x[lo:]
PySliceFrom(x, lo) ==
    LET a == SliceBound(lo, Len(x))
    IN  IF a >= Len(x) THEN <<>> ELSE SubSeq(x, a + 1, Len(x))

\* x[:hi]
PySliceTo(x, hi) ==
    LET b == SliceBound(hi, Len(x))
    IN  IF b <= 0 THEN <<>> ELSE SubSeq(x, 1, b)

\* int(ratio * m): the product truncated towards zero
PyInt(ratio, m) ==
    LET p == ratio[1] * m
    IN  IF p >= 0 THEN p \div ratio[2] ELSE 0 - ((0 - p) \div ratio[2])

\* a / b on Python 2 ints, b # 0: floor division
PyFloorDiv(a, b) ==
    IF b > 0 THEN a \div b
    ELSE LET q == a \div (0 - b)
         IN  IF q * (0 - b) = a THEN 0 - q ELSE 0 - q - 1

RECURSIVE Flatten(_)
\* the lists of xs concatenated in order
Flatten(xs) == IF xs = <<>> THEN <<>> ELSE Head(xs) \o Flatten(Tail(xs))

ToSet(x) == {x[i] : i \in 1..Len(x)}

\* ------------------------------------------------------------- state

VARIABLES
    shuffle,       \* self.shuffle
    random_seed,   \* self.random_seed
    rng,           \* state of self.rng
    y,             \* the label vector the calls are made on
    dictOrder,     \* iteration order of a dict over the label values
    sp,            \* the last split call: arguments and returned pair
    gen,           \* the make_k_folds generator object
    cv,            \* the k_fold_split generator object
    rngStart       \* rng state after the last _flush_rng of a started operation

vars == <<shuffle, random_seed, rng, y, dictOrder, sp, gen, cv, rngStart>>

\* ------------------------------------------------------------- self.rng

\* self.rng.seed(s): the generator state a seed determines
SeedState(s) == (3 * s) % RngMod

\* one self.rng.random() call: the state it leaves
RngNext(r) == (r + 1) % RngMod

\* int(random() * n) for the call that leaves state r: an index in 0..n-1
RngIndex(r, n) == ((((5 * r) + 3) % RngMod) * n) \div RngMod

Swap(x, a, b) == [x EXCEPT ![a] = x[b], ![b] = x[a]]

RECURSIVE ShuffleFrom(_, _, _)
\* the loop of random.shuffle from position i down to 1:
\* j = int(random() * (i + 1)); x[i], x[j] = x[j], x[i]
ShuffleFrom(x, i, r) ==
    IF i < 1 THEN [list |-> x, rng |-> r]
    ELSE LET r1 == RngNext(r)
             j == RngIndex(r1, i + 1)
         IN  ShuffleFrom(Swap(x, i + 1, j + 1), i - 1, r1)

\* self.rng.shuffle(x)
RngShuffle(x, r) == ShuffleFrom(x, Len(x) - 1, r)

MaybeShuffle_always(x, r) == RngShuffle(x, r)

\* "if self.shuffle: self.rng.shuffle(x)"
MaybeShuffle(x, r) == IF shuffle THEN RngShuffle(x, r) ELSE [list |-> x, rng |-> r]

flush_rng_never(r) == r

flush_rng_always(r) == IF random_seed = None THEN 0 ELSE SeedState(random_seed)

\* _flush_rng
flush_rng(r) == IF random_seed # None THEN SeedState(random_seed) ELSE r

\* ------------------------------------------------------------- grouping

\* labels_indices[label]: the positions of label in yy, ascending
IndicesOf(yy, label) ==
    LET F[n \in 0..Len(yy)] ==
            IF n = 0 THEN <<>>
            ELSE IF yy[n] = label THEN Append(F[n - 1], n - 1) ELSE F[n - 1]
    IN  F[Len(yy)]

\* labels_indices.items(): the index lists of the labels present in yy,
\* in the dict's iteration order
LabelGroups(yy) ==
    LET F[n \in 0..Len(dictOrder)] ==
            IF n = 0 THEN <<>>
            ELSE IF \E i \in 1..Len(yy) : yy[i] = dictOrder[n]
                 THEN Append(F[n - 1], IndicesOf(yy, dictOrder[n]))
                 ELSE F[n - 1]
    IN  F[Len(dictOrder)]

\* ------------------------------------------------------------- split

TrainSize_roundUp(train_ratio, m) ==
    ((train_ratio[1] * m) + train_ratio[2] - 1) \div train_ratio[2]

\* int(train_ratio * len(indices))
TrainSize(train_ratio, m) == PyInt(train_ratio, m)

\* indices[:size]
TrainPart(indices, size) == PySliceTo(indices, size)

TestPart_skipOne(indices, size) == PySliceFrom(indices, size + 1)

\* indices[size:]
TestPart(indices, size) == PySliceFrom(indices, size)

\* one pass of the loop over labels_indices.items():
\* train += indices[:size]; test += indices[size:]
AddGroup(acc, indices, size) ==
    [train |-> acc.train \o TrainPart(indices, size),
     test |-> acc.test \o TestPart(indices, size)]

RECURSIVE StratifiedParts(_, _, _)
\* the loop over labels_indices.items(), from the n-th group on
StratifiedParts(groups, train_ratio, n) ==
    IF n < 1 THEN [train |-> <<>>, test |-> <<>>]
    ELSE AddGroup(StratifiedParts(groups, train_ratio, n - 1), groups[n],
                  TrainSize(train_ratio, Len(groups[n])))

\* the non-stratified path after the shuffle: indices[:train_size], indices[train_size:]
SplitPlain(sh, train_size, r0) ==
    [train |-> TrainPart(sh.list, train_size), test |-> TestPart(sh.list, train_size),
     rng |-> sh.rng, start |-> r0]

\* the second shuffle of the stratified path: self.rng.shuffle(test)
ShuffleTest(tr, test, r0) ==
    [train |-> tr.list, test |-> MaybeShuffle(test, tr.rng).list,
     rng |-> MaybeShuffle(test, tr.rng).rng, start |-> r0]

\* the stratified path after the loop: shuffle train, then test
SplitStratified(parts, r0) == ShuffleTest(MaybeShuffle(parts.train, r0), parts.test, r0)

\* split(y, train_ratio, stratify) called with the generator in state r:
\* the returned pair, the generator state left, and the state after _flush_rng
split(r, train_ratio, stratify) ==
    IF ~stratify
    THEN SplitPlain(MaybeShuffle(Range(Len(y)), flush_rng(r)),
                    TrainSize(train_ratio, Len(y)), flush_rng(r))
    ELSE SplitStratified(
             StratifiedParts(LabelGroups(y), train_ratio, Len(LabelGroups(y))),
             flush_rng(r))

\* ------------------------------------------------------------- make_k_folds

\* the generator object make_k_folds(y, n_folds, stratify) returns: no line of
\* the body has run yet
NewGen(n_folds, stratify) ==
    [pc |-> "start", n_folds |-> n_folds, stratify |-> stratify,
     indices |-> <<>>, k |-> 0, out |-> <<>>, clean |-> TRUE]

NoGen == [NewGen(2, FALSE) EXCEPT !.pc = "none"]

FoldSlice_dropRest(indices, k, size, n_folds) ==
    PySlice(indices, k * size, (k + 1) * size)

FoldSlice_balanced(indices, k, size, n_folds) ==
    LET rest == Len(indices) - (size * n_folds)
        lo == (k * size) + Min(k, rest)
        hi == ((k + 1) * size) + Min(k + 1, rest)
    IN  PySlice(indices, lo, hi)

\* fold k of a list cut in n_folds slices of `size`: indices[k*size:(k+1)*size],
\* and indices[k*size:] for the last one
FoldSlice(indices, k, size, n_folds) ==
    IF k < n_folds - 1
    THEN PySlice(indices, k * size, (k + 1) * size)
    ELSE PySliceFrom(indices, k * size)

\* the stratified fold k before shuffling: the k-th slice of every label group
StratifiedFold(groups, k, n_folds) ==
    Flatten([g \in 1..Len(groups) |->
                FoldSlice(groups[g], k, PyFloorDiv(Len(groups[g]), n_folds), n_folds)])

\* "yield np.array(fold)": the generator suspended after fold k, the random
\* generator in the state the fold's shuffle left
YieldFold(g, sh, r0) ==
    [g |-> [g EXCEPT !.pc = "yielded", !.k = g.k + 1, !.out = Append(g.out, sh.list)],
     rng |-> sh.rng, start |-> r0]

\* the body of make_k_folds resumed inside its "for k in xrange(n_folds)" loop
GenLoop(g, r, r0) ==
    IF g.k >= g.n_folds
    THEN [g |-> [g EXCEPT !.pc = "done"], rng |-> r, start |-> r0]
    ELSE IF ~g.stratify
    THEN YieldFold(g, [list |-> FoldSlice(g.indices, g.k,
                                          PyFloorDiv(Len(y), g.n_folds), g.n_folds),
                       rng |-> r], r0)
    ELSE YieldFold(g, MaybeShuffle(StratifiedFold(LabelGroups(y), g.k, g.n_folds), r), r0)

\* the non-stratified body from "fold_size = len(y) / n_folds" on, the index
\* list shuffled as sh: the division raises ZeroDivisionError when n_folds = 0
GenStart(g, sh, r0) ==
    IF g.n_folds = 0
    THEN [g |-> [g EXCEPT !.pc = "error", !.indices = sh.list],
          rng |-> sh.rng, start |-> r0]
    ELSE GenLoop([g EXCEPT !.indices = sh.list], sh.rng, r0)

\* next(g) on a make_k_folds generator with self.rng in state r: the body runs
\* to its next yield, to its end (StopIteration) or to an exception
GenNext(g, r) ==
    IF g.pc = "start"
    THEN IF ~g.stratify
         THEN GenStart(g, MaybeShuffle(Range(Len(y)), flush_rng(r)), flush_rng(r))
         ELSE GenLoop(g, flush_rng(r), flush_rng(r))
    ELSE GenLoop(g, r, rngStart)

RECURSIVE RunGen(_, _), RunGenFrom(_)
\* list(g): next(g) until the generator ends
RunGen(g, r) ==
    IF g.pc \in {"done", "error"} THEN [g |-> g, rng |-> r]
    ELSE RunGenFrom(GenNext(g, r))

RunGenFrom(n) == RunGen(n.g, n.rng)

\* ------------------------------------------------------------- k_fold_split

\* the generator object k_fold_split(y, n_folds, stratify) returns
NewCv(n_folds, stratify) ==
    [pc |-> "start", n_folds |-> n_folds, stratify |-> stratify,
     folds |-> <<>>, i |-> 0, out |-> <<>>, clean |-> TRUE]

NoCv == [NewCv(2, FALSE) EXCEPT !.pc = "none"]

OtherFolds_keepTest(folds, i) == PySliceTo(folds, i) \o PySliceFrom(folds, i)

\* folds[:i] + folds[(i + 1):]
OtherFolds(folds, i) == PySliceTo(folds, i) \o PySliceFrom(folds, i + 1)

\* "yield np.concatenate(rest), folds[i]"; np.concatenate raises ValueError on
\* an empty list of arrays
YieldPair(c, rest, r, r0) ==
    IF rest = <<>>
    THEN [c |-> [c EXCEPT !.pc = "error"], rng |-> r, start |-> r0]
    ELSE [c |-> [c EXCEPT !.pc = "yielded", !.i = c.i + 1,
                          !.out = Append(c.out, [train |-> Flatten(rest),
                                                 test |-> c.folds[c.i + 1]])],
          rng |-> r, start |-> r0]

\* the body of k_fold_split resumed inside its "for i in xrange(n_folds)" loop
CvLoop(c, r, r0) ==
    IF c.i >= c.n_folds
    THEN [c |-> [c EXCEPT !.pc = "done"], rng |-> r, start |-> r0]
    ELSE YieldPair(c, OtherFolds(c.folds, c.i), r, r0)

\* the body after "folds = list(self.make_k_folds(...))": an exception of the
\* inner generator ends this one
CvStart(c, all, r0) ==
    IF all.g.pc = "error"
    THEN [c |-> [c EXCEPT !.pc = "error"], rng |-> all.rng, start |-> r0]
    ELSE CvLoop([c EXCEPT !.folds = all.g.out], all.rng, r0)

\* next(c) on a k_fold_split generator with self.rng in state r: _flush_rng,
\* then the inner make_k_folds call, which runs _flush_rng again
CvNext(c, r) ==
    IF c.pc = "start"
    THEN CvStart(c, RunGen(NewGen(c.n_folds, c.stratify), flush_rng(r)),
                 GenNext(NewGen(c.n_folds, c.stratify), flush_rng(r)).start)
    ELSE CvLoop(c, r, rngStart)

RECURSIVE RunCv(_, _), RunCvFrom(_)
\* list(c): next(c) until the generator ends
RunCv(c, r) ==
    IF c.pc \in {"done", "error"} THEN [c |-> c, rng |-> r]
    ELSE RunCvFrom(CvNext(c, r))

RunCvFrom(n) == RunCv(n.c, n.rng)

\* ------------------------------------------------------------- the instance

RECURSIVE Perms(_)
Perms(S) ==
    IF S = {} THEN {<<>>}
    ELSE UNION {{<<x>> \o p : p \in Perms(S \ {x})} : x \in S}

NoSplit == [pc |-> "none", train_ratio |-> <<1, 2>>, stratify |-> FALSE,
            train |-> <<>>, test |-> <<>>]

\* TrainTestSplitter(shuffle, random_seed) constructed; random.Random() starts
\* from a state taken from the operating system
Init ==
    /\ shuffle \in BOOLEAN
    /\ random_seed \in Seeds
    /\ rng \in 0..(RngMod - 1)
    /\ y \in UNION {[1..n -> Labels] : n \in 0..MaxLen}
    /\ dictOrder \in Perms(Labels)
    /\ sp = NoSplit
    /\ gen = NoGen
    /\ cv = NoCv
    /\ rngStart = rng

\* an operation of the instance ran between two next() calls of a generator
Touched(g) == IF g.pc = "yielded" THEN [g EXCEPT !.clean = FALSE] ELSE g

\* train, test = splitter.split(y, train_ratio, stratify)
Split(train_ratio, stratify) ==
    \E res \in {split(rng, train_ratio, stratify)} :
        /\ sp' = [pc |-> "returned", train_ratio |-> train_ratio, stratify |-> stratify,
                  train |-> res.train, test |-> res.test]
        /\ rng' = res.rng
        /\ rngStart' = res.start
        /\ gen' = Touched(gen)
        /\ cv' = Touched(cv)
        /\ UNCHANGED <<shuffle, random_seed, y, dictOrder>>

\* g = splitter.make_k_folds(y, n_folds, stratify)
MakeKFolds(n_folds, stratify) ==
    /\ gen' = NewGen(n_folds, stratify)
    /\ UNCHANGED <<shuffle, random_seed, rng, y, dictOrder, sp, cv, rngStart>>

\* next(g)
NextFold ==
    /\ gen.pc \in {"start", "yielded"}
    /\ \E res \in {GenNext(gen, rng)} :
           /\ gen' = res.g
           /\ rng' = res.rng
           /\ rngStart' = res.start
    /\ cv' = Touched(cv)
    /\ UNCHANGED <<shuffle, random_seed, y, dictOrder, sp>>

\* c = splitter.k_fold_split(y, n_folds, stratify)
KFoldSplit(n_folds, stratify) ==
    /\ cv' = NewCv(n_folds, stratify)
    /\ UNCHANGED <<shuffle, random_seed, rng, y, dictOrder, sp, gen, rngStart>>

\* next(c)
NextPair ==
    /\ cv.pc \in {"start", "yielded"}
    /\ \E res \in {CvNext(cv, rng)} :
           /\ cv' = res.c
           /\ rng' = res.rng
           /\ rngStart' = res.start
    /\ gen' = Touched(gen)
    /\ UNCHANGED <<shuffle, random_seed, y, dictOrder, sp>>

\* del g / del c: a finished generator object is released
DropGen ==
    /\ gen.pc \in {"done", "error"}
    /\ gen' = NoGen
    /\ UNCHANGED <<shuffle, random_seed, rng, y, dictOrder, sp, cv, rngStart>>

DropCv ==
    /\ cv.pc \in {"done", "error"}
    /\ cv' = NoCv
    /\ UNCHANGED <<shuffle, random_seed, rng, y, dictOrder, sp, gen, rngStart>>

\* the calls made when the operations are mixed on one instance
MixRatios == {<<1, 2>>}
MixFolds == {2, MaxFolds}

\* mixed on label vectors one shorter than the longest
InitMix == Init /\ Len(y) = MaxLen - 1

\* every operation on one instance, a caller holding one generator object at a
\* time; split runs between its next() calls
Next ==
    \/ \E train_ratio \in MixRatios, stratify \in BOOLEAN : Split(train_ratio, stratify)
    \/ \E n_folds \in MixFolds, stratify \in BOOLEAN :
           cv = NoCv /\ MakeKFolds(n_folds, stratify)
    \/ NextFold
    \/ DropGen
    \/ \E n_folds \in MixFolds, stratify \in BOOLEAN :
           gen = NoGen /\ KFoldSplit(n_folds, stratify)
    \/ NextPair
    \/ DropCv

Spec == InitMix /\ [][Next]_vars

\* split alone
NextSplit ==
    \E train_ratio \in Ratios, stratify \in BOOLEAN : Split(train_ratio, stratify)

SpecSplit == Init /\ [][NextSplit]_vars

\* make_k_folds alone
NextFolds ==
    \/ \E n_folds \in FoldCounts, stratify \in BOOLEAN : MakeKFolds(n_folds, stratify)
    \/ NextFold

SpecFolds == Init /\ [][NextFolds]_vars

\* k_fold_split alone
NextCv ==
    \/ \E n_folds \in FoldCounts, stratify \in BOOLEAN : KFoldSplit(n_folds, stratify)
    \/ NextPair

SpecCv == Init /\ [][NextCv]_vars

\* ------------------------------------------------------------- properties

RngStates == 0..(RngMod - 1)

\* the lists together hold every index of 0..n-1 exactly once
IsPartition(lists, n) ==
    LET all == Flatten(lists)
    IN  Len(all) = n /\ ToSet(all) = 0..(n - 1)

Ascending(x) == \A a, b \in 1..Len(x) : a < b => x[a] < x[b]

\* the indices sharing a label are listed in ascending order
AscendingPerLabel(x) ==
    \A a, b \in 1..Len(x) : (a < b /\ y[x[a] + 1] = y[x[b] + 1]) => x[a] < x[b]

ValidSplit == sp.pc = "returned" /\ Len(y) >= 1 /\ sp.train_ratio \in GoodRatios

ValidFolds == gen.pc = "done" /\ Len(y) >= 1 /\ gen.n_folds > 1

ValidCv == cv.pc = "done" /\ Len(y) >= 1 /\ cv.n_folds > 1

\* C1: for a non-empty label vector and 0 < train_ratio < 1, the pair split
\* returns holds every index of 0..n-1 exactly once (both stratify settings,
\* both shuffle settings).
C1_SplitPartitions ==
    ValidSplit =>
        /\ Len(sp.train) + Len(sp.test) = Len(y)
        /\ ToSet(sp.train) \cap ToSet(sp.test) = {}
        /\ ToSet(sp.train) \cup ToSet(sp.test) = 0..(Len(y) - 1)

C1_Witness ==
    /\ ValidSplit /\ sp.stratify /\ shuffle
    /\ Len(y) = MaxLen /\ ToSet(y) = Labels
    /\ Len(sp.train) >= 2 /\ Len(sp.test) >= 2

\* C2: for a non-empty label vector and n_folds > 1, a fully consumed
\* make_k_folds call has yielded exactly n_folds folds that together hold every
\* index of 0..n-1 exactly once.
C2_FoldsPartition ==
    ValidFolds => (Len(gen.out) = gen.n_folds /\ IsPartition(gen.out, Len(y)))

C2_Witness ==
    /\ ValidFolds /\ gen.stratify /\ shuffle
    /\ \E label \in Labels :
           LET m == Len(IndicesOf(y, label))
           IN  m > gen.n_folds /\ m % gen.n_folds # 0

\* C3: for a non-empty label vector and n_folds > 1, k_fold_split yields n_folds
\* pairs; the test group of pair i is fold i, its train group is the other
\* folds concatenated in fold order, and train and test together hold every
\* index of 0..n-1 exactly once.
C3_PairsPartition ==
    ValidCv =>
        /\ Len(cv.out) = cv.n_folds
        /\ \A i \in 1..Len(cv.out) :
               /\ cv.out[i].test = cv.folds[i]
               /\ cv.out[i].train =
                      Flatten([j \in 1..(Len(cv.out) - 1) |->
                                  cv.out[IF j < i THEN j ELSE j + 1].test])
               /\ IsPartition(<<cv.out[i].train, cv.out[i].test>>, Len(y))

C3_Witness ==
    /\ ValidCv /\ cv.n_folds = MaxFolds /\ Len(y) = MaxLen /\ shuffle
    /\ \A i \in 1..Len(cv.out) : cv.out[i].test # <<>>

\* C4: with a seed configured, the output of a split call, of a make_k_folds
\* call consumed back to back and of a k_fold_split call is the output the
\* same call produces from any state of the random generator: a second call
\* with the same arguments, on this instance later or on another instance with
\* the same seed and shuffle setting, returns identical index sequences.
C4_SeededCallsRepeat ==
    random_seed # None =>
        /\ sp.pc = "returned" =>
               \A r \in RngStates :
                   LET again == split(r, sp.train_ratio, sp.stratify)
                   IN  again.train = sp.train /\ again.test = sp.test
        /\ (gen.pc = "done" /\ gen.clean) =>
               \A r \in RngStates :
                   RunGen(NewGen(gen.n_folds, gen.stratify), r).g.out = gen.out
        /\ cv.pc = "done" =>
               \A r \in RngStates :
                   RunCv(NewCv(cv.n_folds, cv.stratify), r).c.out = cv.out

C4_Witness ==
    /\ random_seed # None /\ shuffle
    /\ sp.pc = "returned" /\ sp.train # Range(Len(sp.train))
    /\ gen.pc = "done" /\ gen.clean /\ gen.stratify
    /\ \E k \in 1..Len(gen.out) : Len(gen.out[k]) >= 2 /\ ~Ascending(gen.out[k])
    /\ rng # SeedState(random_seed)

\* C5: in a stratified split with 0 < train_ratio < 1, of every label group of
\* size m exactly floor(train_ratio * m) indices are in train, they are the
\* first ones of the group in ascending index order, and the rest of the group
\* is in test.
C5_StratifiedShare ==
    (ValidSplit /\ sp.stratify) =>
        \A label \in Labels :
            LET g == IndicesOf(y, label)
                f == (sp.train_ratio[1] * Len(g)) \div sp.train_ratio[2]
            IN  /\ ToSet(sp.train) \cap ToSet(g) = {g[i] : i \in 1..f}
                /\ ToSet(sp.test) \cap ToSet(g) = {g[i] : i \in (f + 1)..Len(g)}

\* labels [0,0,0,1], train_ratio 0.5: 1 of the 3 indices of label 0 and none of
\* label 1 go to train
C5_Witness ==
    /\ ValidSplit /\ sp.stratify
    /\ y = <<0, 0, 0, 1>> /\ sp.train_ratio = <<1, 2>>
    /\ ToSet(sp.train) = {0} /\ ToSet(sp.test) = {1, 2, 3}

\* C6: split, make_k_folds and k_fold_split end in an error, with no index
\* group returned or yielded, when labels is empty, train_ratio is outside
\* (0,1) or n_folds <= 1.
C6_InvalidArgumentsFail ==
    /\ (Len(y) = 0 \/ sp.train_ratio \notin GoodRatios) => sp.pc # "returned"
    /\ (Len(y) = 0 \/ gen.n_folds <= 1) =>
           (gen.pc \in {"none", "start", "error"} /\ gen.out = <<>>)
    /\ (Len(y) = 0 \/ cv.n_folds <= 1) =>
           (cv.pc \in {"none", "start", "error"} /\ cv.out = <<>>)

SplitRuns ==
    /\ sp'.pc = "returned" /\ gen' = Touched(gen) /\ cv' = Touched(cv)
    /\ Split(sp'.train_ratio, sp'.stratify)
GenStarts == gen.pc = "start" /\ NextFold
CvStarts == cv.pc = "start" /\ NextPair

\* C8: with a seed configured every operation starts its draws from the state
\* the seed determines; with no seed an operation starts from the state the
\* generator was left in.
C8_ReseedDiscipline ==
    [][(SplitRuns \/ GenStarts \/ CvStarts) =>
           IF random_seed # None
           THEN rngStart' = SeedState(random_seed)
           ELSE rngStart' = rng]_vars

C8_Witness ==
    /\ random_seed = None /\ shuffle
    /\ sp.pc = "returned" /\ cv.pc = "yielded"
    /\ rngStart # rng
    /\ \A s \in Seeds \ {None} : rngStart # SeedState(s)

\* C9 as stated: with shuffle=False every group split returns and every fold
\* make_k_folds yields lists its indices in ascending order.
C9_AscendingOutput ==
    ~shuffle =>
        /\ sp.pc = "returned" => (Ascending(sp.train) /\ Ascending(sp.test))
        /\ \A k \in 1..Len(gen.out) : Ascending(gen.out[k])

\* C9 amended: with shuffle=False the groups and folds of the non-stratified
\* calls are in ascending index order; those of the stratified calls are the
\* label groups' parts one after the other in the dict's order, so the indices
\* of one label are ascending but the whole group need not be.
C9_AscendingPerLabel ==
    ~shuffle =>
        /\ (sp.pc = "returned" /\ ~sp.stratify) =>
               (Ascending(sp.train) /\ Ascending(sp.test))
        /\ (sp.pc = "returned" /\ sp.stratify) =>
               (AscendingPerLabel(sp.train) /\ AscendingPerLabel(sp.test))
        /\ ~gen.stratify => \A k \in 1..Len(gen.out) : Ascending(gen.out[k])
        /\ gen.stratify => \A k \in 1..Len(gen.out) : AscendingPerLabel(gen.out[k])

C9_Witness ==
    /\ ~shuffle
    /\ sp.pc = "returned" /\ sp.stratify /\ ~Ascending(sp.test)
    /\ gen.pc = "done" /\ gen.stratify
    /\ \E k \in 1..Len(gen.out) : ~Ascending(gen.out[k])

\* C10: with a seed configured and shuffle=True, what a make_k_folds or a
\* k_fold_split generator has yielded is what the call yields when consumed
\* back to back, whatever ran on the instance between its next() calls.
C10_InterleavingIndependent ==
    (random_seed # None /\ shuffle) =>
        /\ gen.pc \in {"yielded", "done"} =>
               LET ref == RunGen(NewGen(gen.n_folds, gen.stratify), rng).g.out
               IN  gen.out = SubSeq(ref, 1, Len(gen.out))
        /\ cv.pc \in {"yielded", "done"} =>
               LET ref == RunCv(NewCv(cv.n_folds, cv.stratify), rng).c.out
               IN  cv.out = SubSeq(ref, 1, Len(cv.out))

====
